---------------------------- MODULE Spec2Model ----------------------------
(***************************************************************************)
(* Model of create.py: the /create request handler of the SCOWL custom     *)
(* word list / dictionary creator.                                         *)
(*                                                                         *)
(* Representation of text.  A text (Python str) is a sequence of units: a  *)
(* unit is a run of ASCII characters other than line terminators (a TLA+   *)
(* string), the line feed "\n", the carriage return "\r", or one non-ASCII *)
(* character named by its code point ("U+00E9").  A byte string has the    *)
(* same shape: ASCII runs encode to themselves in both charsets, and the   *)
(* bytes of a non-ASCII character are units named in hexadecimal ("0xC3"). *)
(* A word is a text whose units are single characters.                     *)
(***************************************************************************)
EXTENDS Integers, Sequences, FiniteSets, TLC

VARIABLES
    pc,         \* per request: position of the handler
    args,       \* per request: request.args, a multi-dict of raw strings
    parms,      \* per request: the parms dict built by create()
    words,      \* per request: sorted_words
    resp,       \* per request: what the handler returned or raised
    dbQueries,  \* per request: number of libscowl.getWords calls made
    tmpdir,     \* per request: the TemporaryDirectory held by the builder call
    proc,       \* per request: the builder subprocess
    raw,        \* per request: the set libscowl.getWords returned
    reads,      \* per request: the files the handler opened for reading
    fs          \* the temporary file system: directory -> (file name -> content)

vars == <<pc, args, parms, raw, words, resp, dbQueries, tmpdir, proc, reads, fs>>

---------------------------------------------------------------------------
(* Bounds of the model *)

\* number of request slots (threads of the WSGI server)
NumReqs == 2
\* number of directory names tempfile.mkdtemp can draw from
NumDirs == 3
\* longest list of repeated `spelling` values in a request
MaxSpell == 2

Reqs == 1..NumReqs
DirNames == 1..NumDirs

---------------------------------------------------------------------------
(* Sequence helpers *)

RECURSIVE Concat(_)
\* the concatenation of a sequence of sequences
Concat(ss) == IF ss = << >> THEN << >> ELSE Head(ss) \o Concat(Tail(ss))

RECURSIVE JoinSeq(_, _)
\* sep.join(parts) on sequences of units
JoinSeq(sep, parts) ==
    IF parts = << >> THEN << >>
    ELSE IF Len(parts) = 1 THEN parts[1]
    ELSE parts[1] \o sep \o JoinSeq(sep, Tail(parts))

RECURSIVE JoinStr(_, _)
\* sep.join(parts) on ASCII strings
JoinStr(sep, parts) ==
    IF parts = << >> THEN ""
    ELSE IF Len(parts) = 1 THEN parts[1]
    ELSE parts[1] \o sep \o JoinStr(sep, Tail(parts))

Range(s) == {s[i] : i \in 1..Len(s)}

SeqsUpTo(S, n) == UNION {[1..k -> S] : k \in 0..n}

---------------------------------------------------------------------------
(* Module-level data of create.py *)

SPELLING_MAP == [US |-> "A", GBs |-> "B", GBz |-> "Z", CA |-> "C", AU |-> "D"]

SpellingCodes == DOMAIN SPELLING_MAP

LEGACY_VARIANT_MAP == (0 :> 1) @@ (1 :> 4) @@ (2 :> 6) @@ (3 :> 8)

PRESETS == {"en_US", "en_GB-ise", "en_GB-ize", "en_CA", "en_AU",
            "en_US-large", "en_GB-large", "en_CA-large", "en_AU-large"}

SIZES == (35 :> "35 (small)") @@ (50 :> "50 (medium)") @@ (60 :> "60 (default)")
         @@ (70 :> "70 (large)") @@ (80 :> "80 (huge)") @@ (85 :> "85 (huge+)")

VARIANT_LEVELS ==
    (0 :> "0 (none)") @@ (1 :> "1 *default*") @@ (2 :> "2 (equal)")
    @@ (3 :> "3 (disagreement)") @@ (4 :> "4 *common*") @@ (5 :> "5 (variant)")
    @@ (6 :> "6 *acceptable*") @@ (7 :> "7 (uncommon)") @@ (8 :> "8 (archaic)")
    @@ (9 :> "9 (invalid)")

DIACRITICS == {"strip", "keep", "both"}

SPECIALS == {"hacker", "roman-numerals"}

\* scowl/Copyright up to its first "\n===" line; universal newlines leave no "\r"
COPYRIGHT_BASE == <<"[scowl/Copyright: base, line 1]", "\n",
                    "[scowl/Copyright: base, line 2]">>

\* the "===" sections of scowl/Copyright, by key
COPYRIGHT_SECTIONS ==
    [AU    |-> <<"[scowl/Copyright: AU section]">>,
     UKACD |-> <<"[scowl/Copyright: UKACD section]">>]

\* scowl/README.md, read as text; it holds a non-ASCII character
README_SCOWL == <<"[scowl/README.md: line 1]", "\n",
                  "caf", "U+00E9", "\n">>

\* `git log --pretty=format:%cd [%h] -n 1` of the scowl checkout, stripped
GIT_VER == "Thu Jan 1 00:00:00 2026 +0000 [0123abc]"

---------------------------------------------------------------------------
(* int(): parsing of a raw parameter, given as its sequence of characters *)

Digits == {"0", "1", "2", "3", "4", "5", "6", "7", "8", "9"}

DigitVal(c) ==
    CASE c = "0" -> 0 [] c = "1" -> 1 [] c = "2" -> 2 [] c = "3" -> 3
      [] c = "4" -> 4 [] c = "5" -> 5 [] c = "6" -> 6 [] c = "7" -> 7
      [] c = "8" -> 8 [] c = "9" -> 9

RECURSIVE StripLeft(_)
StripLeft(s) == IF s # << >> /\ Head(s) = " " THEN StripLeft(Tail(s)) ELSE s

RECURSIVE StripRight(_)
StripRight(s) ==
    IF s # << >> /\ s[Len(s)] = " " THEN StripRight(SubSeq(s, 1, Len(s) - 1)) ELSE s

RECURSIVE DigitsValue(_, _)
\* the value of a run of decimal digits, most significant first
DigitsValue(ds, acc) ==
    IF ds = << >> THEN acc ELSE DigitsValue(Tail(ds), 10 * acc + DigitVal(Head(ds)))

\* int(s) for a str s: surrounding blanks are skipped, one sign is allowed, the
\* rest must be a non-empty run of digits; anything else is a ValueError
ParseInt(s) ==
    LET t == StripRight(StripLeft(s))
        signed == t # << >> /\ Head(t) \in {"+", "-"}
        ds == IF signed THEN Tail(t) ELSE t
    IN  IF ds = << >> \/ \E i \in 1..Len(ds) : ds[i] \notin Digits
        THEN [ok |-> FALSE, val |-> 0]
        ELSE [ok |-> TRUE,
              val |-> IF signed /\ Head(t) = "-"
                      THEN 0 - DigitsValue(ds, 0) ELSE DigitsValue(ds, 0)]

---------------------------------------------------------------------------
(* request.args: each key maps to the list of values given for it *)

\* request.args.get(key): the first value, or absent
Has(a, key) == a[key] # << >>

Get(a, key) == a[key][1]

\* request.args.getlist(key)
GetList(a, key) == a[key]

---------------------------------------------------------------------------
(* Parameter resolution: create(), "Parse and validate shared params" *)

\* the first element of a list that is not in Valid (the for loop aborts on it)
FirstInvalid(list, Valid) ==
    LET bad == {i \in 1..Len(list) : list[i] \notin Valid}
    IN  IF bad = {} THEN [found |-> FALSE, val |-> ""]
        ELSE [found |-> TRUE, val |-> list[CHOOSE i \in bad : \A j \in bad : i <= j]]

\* MaxSizeOf with the upper limit off by one: 100 passes
MaxSizeOfOffByOne(a) ==
    LET p == IF Has(a, "max_size") THEN ParseInt(Get(a, "max_size"))
             ELSE [ok |-> TRUE, val |-> 60]
    IN  IF ~p.ok THEN [ok |-> FALSE, val |-> 0, message |-> "max_size must be an integer"]
        ELSE IF p.val < 0 \/ p.val > 100
        THEN [ok |-> FALSE, val |-> 0, message |-> "max_size must be 0-99"]
        ELSE [ok |-> TRUE, val |-> p.val, message |-> ""]

\* int(request.args.get('max_size', 60)) and its range check
MaxSizeOf(a) ==
    LET p == IF Has(a, "max_size") THEN ParseInt(Get(a, "max_size"))
             ELSE [ok |-> TRUE, val |-> 60]
    IN  IF ~p.ok THEN [ok |-> FALSE, val |-> 0, message |-> "max_size must be an integer"]
        ELSE IF p.val < 0 \/ p.val > 99
        THEN [ok |-> FALSE, val |-> 0, message |-> "max_size must be 0-99"]
        ELSE [ok |-> TRUE, val |-> p.val, message |-> ""]

\* request.args.getlist('spelling') or ['US']
SpellingOf(a) ==
    IF GetList(a, "spelling") = << >> THEN <<"US">> ELSE GetList(a, "spelling")

\* VariantLevelOf with the two branches in the other order: max_variant wins
VariantLevelOfLegacyFirst(a) ==
    IF Has(a, "max_variant")
    THEN LET p == ParseInt(Get(a, "max_variant"))
         IN  IF ~p.ok
             THEN [ok |-> FALSE, val |-> 0, message |-> "max_variant must be an integer"]
             ELSE IF p.val \notin DOMAIN LEGACY_VARIANT_MAP
             THEN [ok |-> FALSE, val |-> 0, message |-> "max_variant must be 0-3"]
             ELSE [ok |-> TRUE, val |-> LEGACY_VARIANT_MAP[p.val], message |-> ""]
    ELSE IF Has(a, "variant_level")
    THEN LET p == ParseInt(Get(a, "variant_level"))
         IN  IF ~p.ok
             THEN [ok |-> FALSE, val |-> 0, message |-> "variant_level must be an integer"]
             ELSE IF p.val < 0 \/ p.val > 9
             THEN [ok |-> FALSE, val |-> 0, message |-> "variant_level must be 0-9"]
             ELSE [ok |-> TRUE, val |-> p.val, message |-> ""]
    ELSE [ok |-> TRUE, val |-> 1, message |-> ""]

\* "Handle both legacy max_variant and new variant_level parameters"
VariantLevelOf(a) ==
    IF Has(a, "variant_level")
    THEN LET p == ParseInt(Get(a, "variant_level"))
         IN  IF ~p.ok
             THEN [ok |-> FALSE, val |-> 0, message |-> "variant_level must be an integer"]
             ELSE IF p.val < 0 \/ p.val > 9
             THEN [ok |-> FALSE, val |-> 0, message |-> "variant_level must be 0-9"]
             ELSE [ok |-> TRUE, val |-> p.val, message |-> ""]
    ELSE IF Has(a, "max_variant")
    THEN LET p == ParseInt(Get(a, "max_variant"))
         IN  IF ~p.ok
             THEN [ok |-> FALSE, val |-> 0, message |-> "max_variant must be an integer"]
             ELSE IF p.val \notin DOMAIN LEGACY_VARIANT_MAP
             THEN [ok |-> FALSE, val |-> 0, message |-> "max_variant must be 0-3"]
             ELSE [ok |-> TRUE, val |-> LEGACY_VARIANT_MAP[p.val], message |-> ""]
    ELSE [ok |-> TRUE, val |-> 1, message |-> ""]

\* request.args.get('diacritic', 'strip')
DiacriticOf(a) == IF Has(a, "diacritic") THEN Get(a, "diacritic") ELSE "strip"

\* The shared-parameter block of create(): the parms dict, or the first abort(400)
ResolveParms(a) ==
    LET size == MaxSizeOf(a)
        spelling == SpellingOf(a)
        badSpelling == FirstInvalid(spelling, SpellingCodes)
        variant == VariantLevelOf(a)
        diacritic == DiacriticOf(a)
        special == GetList(a, "special")
        badSpecial == FirstInvalid(special, SPECIALS)
        Fail(msg) == [ok |-> FALSE, message |-> msg, parms |-> << >>]
    IN  IF ~size.ok THEN Fail(size.message)
        ELSE IF badSpelling.found THEN Fail("Invalid spelling: " \o badSpelling.val)
        ELSE IF ~variant.ok THEN Fail(variant.message)
        ELSE IF diacritic \notin DIACRITICS THEN Fail("Invalid diacritic option")
        ELSE IF badSpecial.found THEN Fail("Invalid special: " \o badSpecial.val)
        ELSE [ok |-> TRUE, message |-> "",
              parms |-> [max_size |-> size.val, spelling |-> spelling,
                         variant_level |-> variant.val, diacritic |-> diacritic,
                         special |-> special]]

---------------------------------------------------------------------------
(* dict_name, dump_parms, build_header *)

\* the set `normalized` built by the loop of dict_name
NormalizedRegions(spellings_raw) ==
    {IF s \in {"GBs", "GBz"} THEN "GB" ELSE s : s \in Range(spellings_raw)}

\* dict_name without the GBs/GBz bucket: the raw codes are counted
dict_nameRawCodes(spellings_raw) ==
    LET normalized == Range(spellings_raw)
    IN  IF Cardinality(normalized) = 1
        THEN "en_" \o (CHOOSE x \in normalized : TRUE) \o "-custom"
        ELSE "en-custom"

dict_name(spellings_raw) ==
    LET normalized == NormalizedRegions(spellings_raw)
    IN  IF Cardinality(normalized) = 1
        THEN "en_" \o (CHOOSE x \in normalized : TRUE) \o "-custom"
        ELSE "en-custom"

\* the spell_parts list of dump_parms, codes in the order US GB CA AU
SpellParts(spellings) ==
    LET has_gbs == "GBs" \in Range(spellings)
        has_gbz == "GBz" \in Range(spellings)
        part(code) ==
            IF code = "GB"
            THEN IF has_gbs /\ has_gbz THEN <<"GB">>
                 ELSE IF has_gbs THEN <<"GB(-ise)">>
                 ELSE IF has_gbz THEN <<"GB(-ize/oed)">>
                 ELSE << >>
            ELSE IF code \in Range(spellings) THEN <<code>> ELSE << >>
    IN  part("US") \o part("GB") \o part("CA") \o part("AU")

\* dump_parms(parms, prefix): five lines, each an ASCII run and a line feed
dump_parms(p, prefix) ==
    LET size == p.max_size
        vl == p.variant_level
        spell_parts == SpellParts(p.spelling)
    IN  << prefix \o "Size: "
               \o (IF size \in DOMAIN SIZES THEN SIZES[size] ELSE ToString(size)), "\n",
           prefix \o "Spelling: "
               \o (IF spell_parts # << >> THEN JoinStr(" ", spell_parts) ELSE "<none>"), "\n",
           prefix \o "Variant Level: "
               \o (IF vl \in DOMAIN VARIANT_LEVELS THEN VARIANT_LEVELS[vl] ELSE ToString(vl)),
           "\n",
           prefix \o "Special: "
               \o (IF p.special # << >> THEN JoinStr(" ", p.special) ELSE "<none>"), "\n",
           prefix \o "Diacritics: " \o p.diacritic, "\n" >>

RECURSIVE RStripLF(_)
\* str.rstrip('\n')
RStripLF(t) ==
    IF t # << >> /\ t[Len(t)] = "\n" THEN RStripLF(SubSeq(t, 1, Len(t) - 1)) ELSE t

build_header(p) ==
    LET params_block ==
            RStripLF(<<"Custom wordlist generated from https://app.aspell.net/create using SCOWL",
                       "\n", "with parameters:", "\n">> \o dump_parms(p, "  "))
        parts == <<params_block,
                   <<"https://wordlist.aspell.net">>,
                   <<"Using Git Commit From: " \o GIT_VER>>,
                   COPYRIGHT_BASE>>
                 \o (IF "AU" \in Range(p.spelling) THEN <<COPYRIGHT_SECTIONS.AU>> ELSE << >>)
                 \o (IF p.max_size > 80 THEN <<COPYRIGHT_SECTIONS.UKACD>> ELSE << >>)
    IN  JoinSeq(<<"\n", "\n">>, parts) \o <<"\n", "\n">>

---------------------------------------------------------------------------
(* Words: code points, ordering, accent folding *)

\* ord(c) of the characters words are made of
CodePoint(c) ==
    CASE c = "Z" -> 90 [] c = "a" -> 97 [] c = "c" -> 99 [] c = "e" -> 101
      [] c = "f" -> 102 [] c = "U+00E9" -> 233 [] c = "U+0101" -> 257

\* the units that stand for one non-ASCII character
NonAscii == {"U+00E9", "U+0101"}

WCafe == <<"c", "a", "f", "e">>
WCafeAcute == <<"c", "a", "f", "U+00E9">>
WZ == <<"Z">>
WMacron == <<"U+0101">>

\* the words the lexical database may return
WordUniverse == {WCafe, WCafeAcute, WZ, WMacron}

RECURSIVE WordLess(_, _)
\* v < w for two str: by code point, a proper prefix first
WordLess(v, w) ==
    IF w = << >> THEN FALSE
    ELSE IF v = << >> THEN TRUE
    ELSE IF CodePoint(Head(v)) # CodePoint(Head(w))
    THEN CodePoint(Head(v)) < CodePoint(Head(w))
    ELSE WordLess(Tail(v), Tail(w))

RECURSIVE sorted(_)
\* sorted(words) of a set of str
sorted(S) ==
    IF S = {} THEN << >>
    ELSE LET m == CHOOSE x \in S : \A y \in S \ {x} : WordLess(x, y)
         IN  <<m>> \o sorted(S \ {m})

\* libscowl.deaccent on one character
DeaccentChar(c) ==
    CASE c = "U+00E9" -> "e" [] c = "U+0101" -> "a" [] OTHER -> c

\* libscowl.deaccent(w)
deaccent(w) == [i \in 1..Len(w) |-> DeaccentChar(w[i])]

\* DiacriticProcess with `both` replacing the set instead of adding to it
DiacriticProcessBothReplaces(diacritic, ws) ==
    IF diacritic \in {"strip", "both"} THEN {deaccent(w) : w \in ws} ELSE ws

\* "Diacritic processing" of create()
DiacriticProcess(diacritic, ws) ==
    IF diacritic = "strip" THEN {deaccent(w) : w \in ws}
    ELSE IF diacritic = "both" THEN ws \cup {deaccent(w) : w \in ws}
    ELSE ws

---------------------------------------------------------------------------
(* str.encode and bytes.replace *)

\* the encoding of one unit: ok and its bytes, or not representable
EncodeUnit(u, charset) ==
    IF u \notin NonAscii THEN [ok |-> TRUE, bytes |-> <<u>>]
    ELSE IF charset = "UTF-8"
    THEN [ok |-> TRUE,
          bytes |-> CASE u = "U+00E9" -> <<"0xC3", "0xA9">>
                      [] u = "U+0101" -> <<"0xC4", "0x81">>]
    ELSE IF CodePoint(u) < 256
    THEN [ok |-> TRUE, bytes |-> CASE u = "U+00E9" -> <<"0xE9">>]
    ELSE [ok |-> FALSE, bytes |-> << >>]

\* text.encode(charset): the bytes, or the UnicodeEncodeError with the first
\* unit the charset cannot represent
Encode(text, charset) ==
    LET bad == {i \in 1..Len(text) : ~EncodeUnit(text[i], charset).ok}
    IN  IF bad = {}
        THEN [ok |-> TRUE,
              bytes |-> Concat([i \in 1..Len(text) |-> EncodeUnit(text[i], charset).bytes]),
              exc |-> << >>]
        ELSE LET i == CHOOSE k \in bad : \A j \in bad : k <= j
             IN  [ok |-> FALSE, bytes |-> << >>,
                  exc |-> <<"UnicodeEncodeError", charset, text[i]>>]

\* data.replace(b'\n', b'\r\n')
ReplaceLF(data) ==
    Concat([i \in 1..Len(data) |-> IF data[i] = "\n" THEN <<"\r", "\n">> ELSE <<data[i]>>])

\* sep.join(sorted_words) + sep
WordLines(sorted_words, sep) == JoinSeq(sep, sorted_words) \o sep

---------------------------------------------------------------------------
(* Responses *)

NoResponse ==
    [kind |-> "none", status |-> 0, content_type |-> "", filename |-> "",
     body |-> << >>, message |-> "", exc |-> << >>]

\* Response(body, content_type=..., headers={'Content-Disposition': ...})
Response(body, content_type, filename) ==
    [kind |-> "response", status |-> 200, content_type |-> content_type,
     filename |-> filename, body |-> body, message |-> "", exc |-> << >>]

\* abort(status, message)
Abort(status, message) ==
    [kind |-> "abort", status |-> status, content_type |-> "", filename |-> "",
     body |-> << >>, message |-> message, exc |-> << >>]

\* an exception no handler of create() catches
Raise(exc) ==
    [kind |-> "raise", status |-> 0, content_type |-> "", filename |-> "",
     body |-> << >>, message |-> "", exc |-> exc]

---------------------------------------------------------------------------
(* Word list packaging: create(), from "wordlist-specific params" on *)

\* the tar.gz branch: the members in the order they are added
TarGzMembers(readme_bytes, words_bytes, scowl_readme_bytes) ==
    << <<"SCOWL-wl/README", readme_bytes>>,
       <<"SCOWL-wl/words.txt", words_bytes>>,
       <<"SCOWL-wl/README_SCOWL.md", scowl_readme_bytes>> >>

\* the zip branch with README_SCOWL.md left in Unix line endings
ZipMembersUnixReadme(readme_bytes, words_bytes, scowl_readme_bytes) ==
    << <<"README", ReplaceLF(readme_bytes)>>,
       <<"words.txt", words_bytes>>,
       <<"README_SCOWL.md", scowl_readme_bytes>> >>

\* the zip branch
ZipMembers(readme_bytes, words_bytes, scowl_readme_bytes) ==
    << <<"README", ReplaceLF(readme_bytes)>>,
       <<"words.txt", words_bytes>>,
       <<"README_SCOWL.md", ReplaceLF(scowl_readme_bytes)>> >>

\* what create() answers to a wordlist download once sorted_words is known
WordlistResponse(a, p, sorted_words) ==
    LET encoding == IF Has(a, "encoding") THEN Get(a, "encoding") ELSE "utf-8"
        fmt == IF Has(a, "format") THEN Get(a, "format") ELSE "inline"
        charset == IF encoding = "utf-8" THEN "UTF-8" ELSE "ISO-8859-1"
        header == build_header(p)
        inline == Encode(header \o <<"---", "\n">> \o WordLines(sorted_words, <<"\n">>),
                         charset)
        readme == Encode(header, charset)
        scowl_readme == Encode(README_SCOWL, "UTF-8")
        tar_words == Encode(WordLines(sorted_words, <<"\n">>), charset)
        zip_words == Encode(WordLines(sorted_words, <<"\r", "\n">>), charset)
    IN  IF encoding \notin {"utf-8", "iso-8859-1"} THEN Abort(400, "Invalid encoding")
        ELSE IF fmt \notin {"inline", "tar.gz", "zip"} THEN Abort(400, "Invalid format")
        ELSE IF fmt = "inline"
        THEN IF inline.ok
             THEN Response(inline.bytes, "text/plain; charset=" \o charset, "")
             ELSE Raise(inline.exc)
        ELSE IF ~readme.ok THEN Raise(readme.exc)
        ELSE IF fmt = "tar.gz"
        THEN IF tar_words.ok
             THEN Response([container |-> "tar.gz",
                            members |-> TarGzMembers(readme.bytes, tar_words.bytes,
                                                     scowl_readme.bytes)],
                           "application/octet-stream", "SCOWL-wl.tar.gz")
             ELSE Raise(tar_words.exc)
        ELSE IF zip_words.ok
             THEN Response([container |-> "zip",
                            members |-> ZipMembers(readme.bytes, zip_words.bytes,
                                                   scowl_readme.bytes)],
                           "application/zip", "SCOWL-wl.zip")
             ELSE Raise(zip_words.exc)

---------------------------------------------------------------------------
(* External dictionary builders: make_hunspell_dict and make_aspell_dict *)

NoDir == 0

NoProc ==
    [state |-> "none", argv |-> << >>, stdin |-> << >>, returncode |-> 0,
     stderr |-> ""]

\* how a builder may fail: its exit status and what it printed on standard error
BuilderFailures == {<<1, "">>, <<2, "make-dict: cannot build affix table">>}

\* a workspace at one fixed path instead of a fresh directory
MkdtempFixedPath(files) == {1}

\* tempfile.TemporaryDirectory(): the names mkdtemp may create, none of which exists
Mkdtemp(files) == DirNames \ DOMAIN files

\* a workspace from mkdtemp with no cleanup: the tree stays
RemoveTreeNever(files, d) == files

\* leaving the `with tempfile.TemporaryDirectory()` block: the tree is removed
RemoveTree(files, d) == [x \in DOMAIN files \ {d} |-> files[x]]

\* open(os.path.join(d, name), 'w').write(content)
WriteFile(files, d, name, content) ==
    LET old == IF d \in DOMAIN files THEN files[d] ELSE << >>
    IN  (d :> ((name :> content) @@ old)) @@ files

FileExists(files, d, name) == d \in DOMAIN files /\ name \in DOMAIN files[d]

\* the text written to parms.txt
ControlFile(download, params_str) ==
    IF download = "hunspell" THEN <<"With Parameters:", "\n">> \o params_str
    ELSE params_str

\* the command line of the builder
BuilderArgv(download, name) ==
    IF download = "hunspell"
    THEN <<"scowl/speller/make-hunspell-dict", "-one", name, "parms.txt">>
    ELSE <<"scowl/speller/make-aspell-custom", GIT_VER, "parms.txt">>

\* the file the handler reads back from the workspace
ArtifactName(download, name) ==
    IF download = "hunspell" THEN "hunspell-" \o name \o ".zip"
    ELSE "aspell6-en-custom.tar.bz2"

\* the package a builder makes of its command line, the control file named on
\* it (read in its working directory) and the word list on its standard input
Build(argv, control, stdin) == [argv |-> argv, parms |-> control, words |-> stdin]

\* the except clause answering without e.stderr
BuilderFailedNoDiagnostic(download, stderr) ==
    IF download = "hunspell"
    THEN Abort(500, "Hunspell dictionary generation failed")
    ELSE Abort(500, "Aspell dictionary generation failed")

\* the except clause of create() around the builder call
BuilderFailed(download, stderr) ==
    IF download = "hunspell"
    THEN Abort(500, "Hunspell dictionary generation failed: " \o stderr)
    ELSE Abort(500, "Aspell dictionary generation failed: " \o stderr)

\* the Response create() makes of the builder's output
BuilderResponse(download, name, data) ==
    IF download = "hunspell"
    THEN Response(data, "application/zip", "hunspell-" \o name \o ".zip")
    ELSE Response(data, "application/octet-stream", "aspell6-en-custom.tar.bz2")

---------------------------------------------------------------------------
(* The state machine *)

\* request.args with no key given
NoArgs ==
    [download |-> << >>, defaults |-> << >>, max_size |-> << >>, spelling |-> << >>,
     variant_level |-> << >>, max_variant |-> << >>, diacritic |-> << >>,
     special |-> << >>, encoding |-> << >>, format |-> << >>]

Init ==
    /\ pc = [r \in Reqs |-> "idle"]
    /\ args = [r \in Reqs |-> NoArgs]
    /\ parms = [r \in Reqs |-> << >>]
    /\ raw = [r \in Reqs |-> {}]
    /\ words = [r \in Reqs |-> << >>]
    /\ resp = [r \in Reqs |-> NoResponse]
    /\ dbQueries = [r \in Reqs |-> 0]
    /\ tmpdir = [r \in Reqs |-> NoDir]
    /\ proc = [r \in Reqs |-> NoProc]
    /\ reads = [r \in Reqs |-> << >>]
    /\ fs = << >>

\* request.args.get('download'); "" stands for None as well: both are falsy
Download(r) == IF Has(args[r], "download") THEN Get(args[r], "download") ELSE ""

\* the name passed to make_hunspell_dict
DictName(r) == dict_name(parms[r].spelling)

\* A request arrives: Flask calls create() with its query string
Receive(r, Inputs) ==
    /\ pc[r] = "idle"
    /\ \E a \in Inputs : args' = [args EXCEPT ![r] = a]
    /\ pc' = [pc EXCEPT ![r] = "start"]
    /\ UNCHANGED <<parms, raw, words, resp, dbQueries, tmpdir, proc, reads, fs>>

\* create() up to "Map to libscowl args": the form, an abort(400), or parms
Resolve(r) ==
    /\ pc[r] = "start"
    /\ LET a == args[r]
           res == ResolveParms(a)
       IN  IF Download(r) = ""
           THEN LET defaults == IF Has(a, "defaults") THEN Get(a, "defaults") ELSE "en_US"
                IN  /\ resp' = [resp EXCEPT ![r] =
                                  IF defaults \notin PRESETS
                                  THEN Abort(400, "Invalid defaults preset")
                                  ELSE Response(<<"render_form", defaults>>,
                                                "text/html; charset=UTF-8", "")]
                    /\ pc' = [pc EXCEPT ![r] = "done"]
                    /\ UNCHANGED parms
           ELSE IF Download(r) \notin {"wordlist", "hunspell", "aspell"}
           THEN /\ resp' = [resp EXCEPT ![r] = Abort(400, "Invalid download type")]
                /\ pc' = [pc EXCEPT ![r] = "done"]
                /\ UNCHANGED parms
           ELSE IF ~res.ok
           THEN /\ resp' = [resp EXCEPT ![r] = Abort(400, res.message)]
                /\ pc' = [pc EXCEPT ![r] = "done"]
                /\ UNCHANGED parms
           ELSE /\ parms' = [parms EXCEPT ![r] = res.parms]
                /\ pc' = [pc EXCEPT ![r] = "resolved"]
                /\ UNCHANGED resp
    /\ UNCHANGED <<args, raw, words, dbQueries, tmpdir, proc, reads, fs>>

\* "Generate wordlist": openDB, getWords, diacritic processing, sorted
Query(r, DBResults) ==
    /\ pc[r] = "resolved"
    /\ \E ws \in DBResults :
          /\ raw' = [raw EXCEPT ![r] = ws]
          /\ words' = [words EXCEPT ![r] =
                          sorted(DiacriticProcess(parms[r].diacritic, ws))]
    /\ dbQueries' = [dbQueries EXCEPT ![r] = @ + 1]
    /\ pc' = [pc EXCEPT ![r] = "queried"]
    /\ UNCHANGED <<args, parms, resp, tmpdir, proc, reads, fs>>

\* download == 'wordlist': the rest of create()
Wordlist(r) ==
    /\ pc[r] = "queried"
    /\ Download(r) = "wordlist"
    /\ resp' = [resp EXCEPT ![r] = WordlistResponse(args[r], parms[r], words[r])]
    /\ pc' = [pc EXCEPT ![r] = "done"]
    /\ UNCHANGED <<args, parms, raw, words, dbQueries, tmpdir, proc, reads, fs>>

\* make_*_dict enters the with block and writes parms.txt
MakeWorkspace(r) ==
    /\ pc[r] = "queried"
    /\ Download(r) \in {"hunspell", "aspell"}
    /\ \E d \in Mkdtemp(fs) :
          /\ tmpdir' = [tmpdir EXCEPT ![r] = d]
          /\ fs' = WriteFile(fs, d, "parms.txt",
                             ControlFile(Download(r), dump_parms(parms[r], "  ")))
    /\ pc' = [pc EXCEPT ![r] = "workspace"]
    /\ UNCHANGED <<args, parms, raw, words, resp, dbQueries, proc, reads>>

\* subprocess.run starts the builder in the workspace and feeds it the word
\* list in iso-8859-1; a word that cannot be encoded ends the call
RunBuilder(r) ==
    /\ pc[r] = "workspace"
    /\ LET input == Encode(WordLines(words[r], <<"\n">>), "ISO-8859-1")
       IN  IF input.ok
           THEN /\ proc' = [proc EXCEPT ![r] =
                              [state |-> "running",
                               argv |-> BuilderArgv(Download(r), DictName(r)),
                               stdin |-> input.bytes, returncode |-> 0,
                               stderr |-> ""]]
                /\ pc' = [pc EXCEPT ![r] = "running"]
                /\ UNCHANGED <<resp, tmpdir, fs>>
           ELSE /\ fs' = RemoveTree(fs, tmpdir[r])
                /\ tmpdir' = [tmpdir EXCEPT ![r] = NoDir]
                /\ resp' = [resp EXCEPT ![r] = Raise(input.exc)]
                /\ pc' = [pc EXCEPT ![r] = "done"]
                /\ UNCHANGED proc
    /\ UNCHANGED <<args, parms, raw, words, dbQueries, reads>>

\* the builder, running in the workspace (cwd=tmpdir), ends: with status 0, having
\* written its package or not, or with a non-zero status, which check=True turns
\* into CalledProcessError
BuilderExit(r) ==
    /\ pc[r] = "running"
    /\ \/ /\ FileExists(fs, tmpdir[r], "parms.txt")
          /\ fs' = WriteFile(fs, tmpdir[r], ArtifactName(Download(r), DictName(r)),
                             Build(proc[r].argv, fs[tmpdir[r]]["parms.txt"],
                                   proc[r].stdin))
          /\ proc' = [proc EXCEPT ![r].state = "exited"]
          /\ pc' = [pc EXCEPT ![r] = "exited"]
          /\ UNCHANGED <<resp, tmpdir>>
       \/ /\ proc' = [proc EXCEPT ![r].state = "exited"]
          /\ pc' = [pc EXCEPT ![r] = "exited"]
          /\ UNCHANGED <<resp, tmpdir, fs>>
       \/ \E f \in BuilderFailures :
             /\ proc' = [proc EXCEPT ![r].state = "exited", ![r].returncode = f[1],
                                     ![r].stderr = f[2]]
             /\ fs' = RemoveTree(fs, tmpdir[r])
             /\ tmpdir' = [tmpdir EXCEPT ![r] = NoDir]
             /\ resp' = [resp EXCEPT ![r] = BuilderFailed(Download(r), f[2])]
             /\ pc' = [pc EXCEPT ![r] = "done"]
    /\ UNCHANGED <<args, parms, raw, words, dbQueries, reads>>

\* the handler opens the expected artifact, leaves the with block and answers
ReadArtifact(r) ==
    /\ pc[r] = "exited"
    /\ LET name == ArtifactName(Download(r), DictName(r))
       IN  IF FileExists(fs, tmpdir[r], name)
           THEN /\ reads' = [reads EXCEPT ![r] = Append(@, name)]
                /\ resp' = [resp EXCEPT ![r] =
                              BuilderResponse(Download(r), DictName(r), fs[tmpdir[r]][name])]
           ELSE /\ resp' = [resp EXCEPT ![r] = Raise(<<"FileNotFoundError", name>>)]
                /\ UNCHANGED reads
    /\ fs' = RemoveTree(fs, tmpdir[r])
    /\ tmpdir' = [tmpdir EXCEPT ![r] = NoDir]
    /\ pc' = [pc EXCEPT ![r] = "done"]
    /\ UNCHANGED <<args, parms, raw, words, dbQueries, proc>>

\* one step of the handler serving request r
Handler(r, Inputs, DBResults) ==
    \/ Receive(r, Inputs)
    \/ Resolve(r)
    \/ Query(r, DBResults)
    \/ Wordlist(r)
    \/ MakeWorkspace(r)
    \/ RunBuilder(r)
    \/ BuilderExit(r)
    \/ ReadArtifact(r)

---------------------------------------------------------------------------
(* The requests the specifications draw from *)

\* the requests with one choice per key: each argument is a set of value lists
Requests(D, DF, Z, S, V, MV, DI, SP, E, F) ==
    [download : D, defaults : DF, max_size : Z, spelling : S, variant_level : V,
     max_variant : MV, diacritic : DI, special : SP, encoding : E, format : F]

Absent == {<< >>}

\* raw integers, as lists of one value given by its characters
RawSizes ==
    {<< >>, << <<"0">> >>, << <<"8", "5">> >>, << <<"9", "9">> >>,
     << <<"1", "0", "0">> >>, << <<"-", "1">> >>, << <<"x">> >>}

RawLevels ==
    {<< >>, << <<"0">> >>, << <<" ", "4">> >>, << <<"9">> >>, << <<"1", "0">> >>,
     << <<"-", "1">> >>, << <<"7", "x">> >>, << << >> >>}

RawLegacy ==
    {<< >>, << <<"0">> >>, << <<"1">> >>, << <<"2">> >>, << <<"3">> >>,
     << <<"4">> >>, << <<"-", "1">> >>, << <<"x">> >>}

Downloads == {<<"wordlist">>, <<"hunspell">>, <<"aspell">>}

\* no download: the form, for a preset or not
FormInputs ==
    Requests({<< >>, <<"">>}, {<< >>, <<"en_GB-large">>, <<"en_XX">>},
             Absent, Absent, Absent, Absent, Absent, Absent, Absent, Absent)
    \cup Requests({<<"bogus">>}, Absent, Absent, Absent, Absent, Absent, Absent,
                  Absent, Absent, Absent)

\* size and spelling
SizeInputs ==
    Requests({<<"hunspell">>}, Absent, RawSizes,
             SeqsUpTo(SpellingCodes \cup {"XX"}, MaxSpell),
             Absent, Absent, Absent, Absent, Absent, Absent)

\* variant_level and max_variant, in every combination
VariantInputs ==
    Requests({<<"wordlist">>, <<"aspell">>}, Absent, Absent, Absent, RawLevels, RawLegacy,
             Absent, Absent, Absent, Absent)

\* diacritic and special
OptionInputs ==
    Requests(Downloads, Absent, Absent, {<< >>, <<"AU">>},
             Absent, Absent, {<< >>, <<"strip">>, <<"keep">>, <<"both">>, <<"fold">>},
             SeqsUpTo(SPECIALS \cup {"foo"}, 1), Absent, Absent)

\* wordlist downloads: encoding and format against the shared parameters
WordlistInputs ==
    Requests({<<"wordlist">>}, Absent, {<< >>, << <<"8", "5">> >>, << <<"1", "0", "0">> >>},
             {<< >>, <<"AU">>}, Absent, Absent,
             {<< >>, <<"keep">>, <<"both">>}, Absent,
             {<< >>, <<"utf-8">>, <<"iso-8859-1">>, <<"utf-16">>},
             {<< >>, <<"inline">>, <<"tar.gz">>, <<"zip">>, <<"rar">>})

Inputs == FormInputs \cup SizeInputs \cup VariantInputs \cup OptionInputs
          \cup WordlistInputs

\* what getWords may return
DBResults == SUBSET WordUniverse

\* the requests served at the same time
ConcInputs ==
    Requests({<<"hunspell">>}, Absent, Absent, Absent, Absent, Absent, Absent, Absent,
             Absent, Absent)
    \cup Requests({<<"aspell">>}, Absent, Absent, {<<"CA">>}, Absent, Absent,
                  {<<"keep">>}, Absent, Absent, Absent)
    \cup Requests({<<"wordlist">>}, Absent, Absent, Absent, Absent, Absent, Absent,
                  Absent, Absent, {<<"zip">>})

ConcDBResults == {{WZ, WCafeAcute}, {WMacron}}

---------------------------------------------------------------------------
(* Specifications *)

\* one request at a time, over all the inputs
Next == Handler(1, Inputs, DBResults)

Spec == Init /\ [][Next]_vars

\* every request slot serving at the same time
NextConc == \E r \in Reqs : Handler(r, ConcInputs, ConcDBResults)

SpecConc == Init /\ [][NextConc]_vars

---------------------------------------------------------------------------
(* Properties *)

\* the handler serving r got past parameter resolution: parms[r] is complete
Resolved(r) ==
    \/ pc[r] \in {"resolved", "queried", "workspace", "running", "exited"}
    \/ pc[r] = "done" /\ dbQueries[r] > 0

\* the handler serving r has ended
Ended(r) == pc[r] = "done"

\* C1: fail-fast validation.  No execution of create() performs a word-set
\* query and then ends in a validation error (a 400 answer): every parameter,
\* encoding and format of a wordlist download included, is checked before the
\* lexical database is opened.
C1_ValidationBeforeQuery ==
    \A r \in Reqs :
        Ended(r) /\ resp[r].kind = "abort" /\ resp[r].status = 400
            => dbQueries[r] = 0

\* C2: the temporary workspace of a builder invocation is released on every
\* exit path.  Every directory that exists is the workspace of an invocation
\* still inside its with block; once the handler has ended (by a package, a
\* non-zero builder exit, an encoding failure or a missing artifact) it holds
\* no workspace and none is left behind.
C2_WorkspaceReleased ==
    /\ \A d \in DOMAIN fs :
          \E r \in Reqs : tmpdir[r] = d /\ pc[r] \in {"workspace", "running", "exited"}
    /\ \A r \in Reqs : Ended(r) => tmpdir[r] = NoDir
    /\ (\A r \in Reqs : pc[r] \in {"idle", "done"}) => fs = << >>

\* C2 witness: a hunspell invocation has ended by a non-zero builder exit and
\* an aspell invocation by a missing artifact, and no workspace exists
C2_Witness ==
    /\ Ended(1) /\ Download(1) = "hunspell"
    /\ resp[1].kind = "abort" /\ resp[1].status = 500
    /\ Ended(2) /\ Download(2) = "aspell"
    /\ resp[2].kind = "raise" /\ resp[2].exc[1] = "FileNotFoundError"
    /\ fs = << >>

\* C3: a builder that exits non-zero gives a 500 answer whose message is the
\* fixed prefix of the download type followed by the builder's stderr text
\* verbatim; no payload is returned and the output artifact is never read.
C3_BuilderFailureReported ==
    \A r \in Reqs :
        proc[r].state = "exited" /\ proc[r].returncode # 0
            => /\ Ended(r)
               /\ resp[r].kind = "abort" /\ resp[r].status = 500
               /\ resp[r].message =
                      (IF Download(r) = "hunspell"
                       THEN "Hunspell dictionary generation failed: "
                       ELSE "Aspell dictionary generation failed: ") \o proc[r].stderr
               /\ resp[r].body = << >>
               /\ reads[r] = << >>

\* C3 witness: an aspell builder has exited with status 2 and a diagnostic
C3_Witness ==
    /\ Download(1) = "aspell"
    /\ proc[1].state = "exited" /\ proc[1].returncode = 2
    /\ proc[1].stderr = "make-dict: cannot build affix table"
    /\ resp[1].status = 500

\* the control text and word bytes the handler serving r hands to its builder
OwnControl(r) == ControlFile(Download(r), dump_parms(parms[r], "  "))

OwnStdin(r) == Encode(WordLines(words[r], <<"\n">>), "ISO-8859-1").bytes

\* C4: concurrent builder invocations are isolated.  Two live invocations
\* never hold the same workspace; the parms.txt in an invocation's workspace
\* is the one it wrote; the artifact in it was built from its own control file
\* and word list; and the bytes a request gets back are that artifact.
C4_WorkspacesIsolated ==
    /\ \A r1, r2 \in Reqs :
          r1 # r2 /\ tmpdir[r1] # NoDir => tmpdir[r1] # tmpdir[r2]
    /\ \A r \in Reqs :
          pc[r] \in {"workspace", "running", "exited"}
              => /\ FileExists(fs, tmpdir[r], "parms.txt")
                 /\ fs[tmpdir[r]]["parms.txt"] = OwnControl(r)
                 /\ \A f \in DOMAIN fs[tmpdir[r]] \ {"parms.txt"} :
                       /\ f = ArtifactName(Download(r), DictName(r))
                       /\ fs[tmpdir[r]][f] =
                              Build(proc[r].argv, OwnControl(r), OwnStdin(r))
    /\ \A r \in Reqs :
          Ended(r) /\ Download(r) \in {"hunspell", "aspell"} /\ resp[r].kind = "response"
              => resp[r].body = Build(BuilderArgv(Download(r), DictName(r)),
                                      OwnControl(r), OwnStdin(r))

\* C4 witness: two builders with different parameters have finished side by
\* side and both artifacts wait, each in its own workspace
C4_Witness ==
    /\ pc[1] = "exited" /\ pc[2] = "exited"
    /\ Download(1) # Download(2)
    /\ FileExists(fs, tmpdir[1], ArtifactName(Download(1), DictName(1)))
    /\ FileExists(fs, tmpdir[2], ArtifactName(Download(2), DictName(2)))

\* the reference of C5: the variant level of a request, or -1 for a rejection
RefVariant(a) ==
    LET lv == ParseInt(Get(a, "variant_level"))
        mv == ParseInt(Get(a, "max_variant"))
    IN  IF a.variant_level # << >>
        THEN IF lv.ok /\ lv.val \in 0..9 THEN lv.val ELSE -1
        ELSE IF a.max_variant # << >>
        THEN IF mv.ok /\ mv.val \in 0..3 THEN <<1, 4, 6, 8>>[mv.val + 1] ELSE -1
        ELSE 1

VariantMessages ==
    {"variant_level must be an integer", "variant_level must be 0-9",
     "max_variant must be an integer", "max_variant must be 0-3"}

\* C5: variant resolution equals the reference.  A present variant_level must
\* be an integer 0-9 and is used as is, max_variant being ignored; otherwise a
\* present max_variant must be 0, 1, 2 or 3 and gives 1, 4, 6, 8; otherwise
\* the level is 1.  The request is rejected for its variant exactly when the
\* reference rejects it.
C5_VariantResolution ==
    \A r \in Reqs :
        LET a == args[r]
        IN  /\ Resolved(r) => parms[r].variant_level = RefVariant(a)
            /\ Ended(r) /\ resp[r].kind = "abort" /\ resp[r].message \in VariantMessages
                  => RefVariant(a) = -1
            /\ Ended(r) /\ RefVariant(a) = -1
                  /\ Download(r) \in {"wordlist", "hunspell", "aspell"}
                  /\ MaxSizeOf(a).ok /\ Range(SpellingOf(a)) \subseteq SpellingCodes
                  => /\ resp[r].kind = "abort" /\ resp[r].status = 400
                     /\ resp[r].message \in VariantMessages
                     /\ (Has(a, "variant_level")
                            => resp[r].message \in {"variant_level must be an integer",
                                                    "variant_level must be 0-9"})

\* C5 witness: variant_level=9 with max_variant=3 has resolved to 9
C5_Witness ==
    /\ Resolved(1)
    /\ args[1].variant_level = << <<"9">> >> /\ args[1].max_variant = << <<"3">> >>
    /\ parms[1].variant_level = 9

RECURSIVE NormalizeEOL(_)
\* a byte string with every CR LF pair replaced by LF
NormalizeEOL(data) ==
    IF data = << >> THEN << >>
    ELSE IF Len(data) >= 2 /\ data[1] = "\r" /\ data[2] = "\n"
    THEN <<"\n">> \o NormalizeEOL(SubSeq(data, 3, Len(data)))
    ELSE <<Head(data)>> \o NormalizeEOL(Tail(data))

\* the requested format of a wordlist download
Format(r) == IF Has(args[r], "format") THEN Get(args[r], "format") ELSE "inline"

\* what the handler answers to the request of r asked in another format, with
\* the same parameters, encoding and word set
InFormat(r, fmt) ==
    IF Format(r) = fmt THEN resp[r]
    ELSE WordlistResponse([args[r] EXCEPT !.format = <<fmt>>], parms[r], words[r])

\* r has been answered with a word list archive
ArchiveAnswered(r) ==
    /\ Ended(r) /\ Download(r) = "wordlist" /\ dbQueries[r] > 0
    /\ resp[r].kind = "response" /\ Format(r) \in {"zip", "tar.gz"}

\* the line-ending convention of each archive, and equal content once the
\* line endings are normalized
SameContent(zip, tar) ==
    /\ zip.kind = "response" /\ tar.kind = "response"
    /\ zip.body.container = "zip" /\ tar.body.container = "tar.gz"
    /\ Len(zip.body.members) = 3 /\ Len(tar.body.members) = 3
    /\ \A i \in 1..3 :
          LET z == zip.body.members[i][2]
              t == tar.body.members[i][2]
          IN  /\ NormalizeEOL(z) = t
              /\ "\r" \notin Range(t)
              /\ \A k \in 1..Len(z) : z[k] = "\n" => k > 1 /\ z[k - 1] = "\r"

\* C6 as stated: the zip and the tar.gz archive of the same request hold the
\* same three members, whose content is byte-identical after decompression and
\* line-ending normalization.
C6_SameMembers ==
    \A r \in Reqs :
        ArchiveAnswered(r)
            => LET zip == InFormat(r, "zip")
                   tar == InFormat(r, "tar.gz")
               IN  /\ SameContent(zip, tar)
                   /\ \A i \in 1..3 : zip.body.members[i][1] = tar.body.members[i][1]

\* C6 amended: the tar.gz archive keeps its three members under the directory
\* SCOWL-wl/ and the zip archive keeps the same three at its root, in the same
\* order; the zip members end every line with CR LF and the tar.gz members
\* hold no CR; after line-ending normalization the content of each member is
\* byte-identical in both.
C6_MembersUpToPrefix ==
    \A r \in Reqs :
        ArchiveAnswered(r)
            => LET zip == InFormat(r, "zip")
                   tar == InFormat(r, "tar.gz")
               IN  /\ SameContent(zip, tar)
                   /\ \A i \in 1..3 :
                         tar.body.members[i][1] = "SCOWL-wl/" \o zip.body.members[i][1]
                   /\ <<zip.body.members[1][1], zip.body.members[2][1],
                        zip.body.members[3][1]>> = <<"README", "words.txt", "README_SCOWL.md">>

\* C6 witness: a zip archive in iso-8859-1 holding an accented word
C6_Witness ==
    /\ ArchiveAnswered(1) /\ Format(1) = "zip"
    /\ args[1].encoding = <<"iso-8859-1">>
    /\ WCafeAcute \in Range(words[1]) /\ Len(words[1]) >= 2

\* the text units of the request of r that ISO-8859-1 cannot represent
Unrepresentable(r) ==
    {u \in Range(build_header(parms[r])) \cup UNION {Range(w) : w \in Range(words[r])} :
        u \in NonAscii /\ CodePoint(u) > 255}

\* C7: when the header or a word holds a character ISO-8859-1 cannot
\* represent, a wordlist download in that charset (inline, tar.gz or zip) ends
\* in a handled error answer of its own kind, neither the 400 of a validation
\* error nor the 500 of a builder failure, that names the offending character.
C7_EncodingErrorHandled ==
    \A r \in Reqs :
        /\ Ended(r) /\ Download(r) = "wordlist" /\ dbQueries[r] > 0
        /\ args[r].encoding = <<"iso-8859-1">>
        /\ Format(r) \in {"inline", "tar.gz", "zip"}
        /\ Unrepresentable(r) # {}
        => /\ resp[r].kind = "abort"
           /\ resp[r].exc # << >> /\ resp[r].exc[3] \in Unrepresentable(r)

\* the reference of C8
RefDictName(sp) ==
    IF \A i \in 1..Len(sp) : sp[i] \in {"GBs", "GBz"} THEN "en_GB-custom"
    ELSE IF \A i \in 1..Len(sp) : sp[i] = sp[1] THEN "en_" \o sp[1] \o "-custom"
    ELSE "en-custom"

\* C8: dict_name.  GBs and GBz both count as GB; a selection with exactly one
\* distinct region is named en_<REGION>-custom, any other en-custom.  The name
\* is the one on the hunspell builder's command line and in the file name of
\* the answer.
C8_DictName ==
    /\ dict_name(<<"US">>) = "en_US-custom"
    /\ dict_name(<<"GBs">>) = "en_GB-custom"
    /\ dict_name(<<"GBz">>) = "en_GB-custom"
    /\ dict_name(<<"GBs", "GBz">>) = "en_GB-custom"
    /\ dict_name(<<"US", "CA">>) = "en-custom"
    /\ \A r \in Reqs :
          Download(r) = "hunspell"
              => /\ proc[r].state # "none"
                    => proc[r].argv[3] = RefDictName(parms[r].spelling)
                 /\ Ended(r) /\ resp[r].kind = "response"
                    => resp[r].filename
                           = "hunspell-" \o RefDictName(parms[r].spelling) \o ".zip"

\* C8 witness: the package of a GBz, GBs selection has been answered
C8_Witness ==
    /\ Ended(1) /\ Download(1) = "hunspell" /\ resp[1].kind = "response"
    /\ parms[1].spelling = <<"GBz", "GBs">>
    /\ resp[1].filename = "hunspell-en_GB-custom.zip"

\* C9: diacritic post-processing.  With W the set getWords returned: strip
\* gives the folded forms of W, both gives W and its folded forms, keep gives
\* W; sorted_words is that set in strictly increasing order.  So strip leaves
\* no accented character and both holds the folded form of every word.
C9_DiacriticProcessing ==
    \A r \in Reqs :
        dbQueries[r] > 0
            => LET W == raw[r]
                   F == {deaccent(w) : w \in W}
                   d == parms[r].diacritic
               IN  /\ d = "strip" => Range(words[r]) = F
                   /\ d = "both" => Range(words[r]) = W \cup F
                   /\ d = "keep" => Range(words[r]) = W
                   /\ \A i, j \in 1..Len(words[r]) :
                         i < j => WordLess(words[r][i], words[r][j])
                   /\ d = "strip"
                         => \A i \in 1..Len(words[r]) : Range(words[r][i]) \cap NonAscii = {}
                   /\ d = "both" => \A w \in W : deaccent(w) \in Range(words[r])

\* C9 witness: both, on a set holding an accented word without its plain form
C9_Witness ==
    /\ dbQueries[1] > 0 /\ parms[1].diacritic = "both"
    /\ raw[1] = {WCafeAcute, WZ}
    /\ words[1] = <<WZ, WCafe, WCafeAcute>>

\* C10: the canonical parameter record.  Whenever create() goes on to query
\* the lexical database, spelling is a non-empty list of known codes (US alone
\* when none was given), variant_level is in 0-9, max_size is in 0-99,
\* diacritic is strip, keep or both, and every special tag is known.
C10_CanonicalRecord ==
    \A r \in Reqs :
        Resolved(r)
            => /\ parms[r].spelling # << >>
               /\ Range(parms[r].spelling) \subseteq {"US", "GBs", "GBz", "CA", "AU"}
               /\ args[r].spelling = << >> => parms[r].spelling = <<"US">>
               /\ parms[r].variant_level \in 0..9
               /\ parms[r].max_size \in 0..99
               /\ parms[r].diacritic \in {"strip", "keep", "both"}
               /\ Range(parms[r].special) \subseteq {"hacker", "roman-numerals"}

\* C10 witness: max_size=99 with no spelling given has been resolved and queried
C10_Witness ==
    /\ dbQueries[1] > 0
    /\ args[1].max_size = << <<"9", "9">> >> /\ args[1].spelling = << >>
    /\ parms[1].max_size = 99 /\ parms[1].spelling = <<"US">>

============================================================================
